---- MODULE Spec2Model ----
(***************************************************************************)
(* Image2ImageTool._invoke (src/tools/image2image.py): a generator that    *)
(* resolves and base64-encodes the input images, opens one streaming call  *)
(* to the remote generation API and re-emits the streamed events as text,  *)
(* image and JSON messages.                                                *)
(*                                                                         *)
(* The host's message sinks (create_text_message, create_image_message,    *)
(* create_json_message) are outside the repository; they are modelled as   *)
(* total functions that build the message the generator yields.            *)
(***************************************************************************)
EXTENDS Integers, Sequences, FiniteSets, TLC

VARIABLES
    pc,           \* position of the generator: "start", "images", "stream", or how
                  \* it ended: "returned" (a return statement), "caught" (the
                  \* handler of line 183 reported an exception), "exhausted"
                  \* (the stream ended and the generator ran off its end)
    n,            \* len(image_files); 0 when the parameter is absent or empty
    i,            \* number of loop iterations of `for image_file in image_files` completed
    image_file,   \* the loop variable while the image loop runs (NoRef outside it)
    last_out,     \* messages yielded by the iteration for image_file
    images_data,  \* list of data URLs built so far
    msgs,         \* every message yielded so far, in order
    api_calls,    \* number of calls of client.images.generate
    request,      \* the `image` argument of the call, once made
    images_info,  \* list of recorded events
    stream,       \* events the remote stream has delivered so far, in order
    outs          \* outs[k]: messages yielded while handling stream[k]

vars == <<pc, n, i, image_file, last_out, images_data, msgs, api_calls,
          request, images_info, stream, outs>>

-----------------------------------------------------------------------------
(* Bounds *)

MaxImages == 2

(* One invocation consumes at most MaxInputs units of input: an event of   *)
(* the remote stream counts for one, an input image for two.               *)
MaxInputs == 3

-----------------------------------------------------------------------------
(* Byte strings are sequences of octets; file contents are tagged values.  *)

NoneContent == [kind |-> "none", data |-> <<>>]

Bytes(b) == [kind |-> "bytes", data |-> b]

Text(b) == [kind |-> "str", data |-> b]

UrlBytes == <<1>>

BlobBytes == <<2, 250>>

ReadBytes == <<3, 4, 5>>

StrPathBytes == <<6>>

PathBytes == <<7, 8>>

(* base64.b64encode(file_data).decode("utf-8"): the alphabet index of each  *)
(* output character, 64 standing for the padding character "=".            *)
Pad == 64

RECURSIVE B64(_)
B64(b) ==
    IF Len(b) = 0 THEN <<>>
    ELSE IF Len(b) = 1 THEN
        <<b[1] \div 4, (b[1] % 4) * 16, Pad, Pad>>
    ELSE IF Len(b) = 2 THEN
        <<b[1] \div 4, (b[1] % 4) * 16 + (b[2] \div 16), (b[2] % 16) * 4, Pad>>
    ELSE
        <<b[1] \div 4, (b[1] % 4) * 16 + (b[2] \div 16),
          (b[2] % 16) * 4 + (b[3] \div 64), b[3] % 64>>
        \o B64(SubSeq(b, 4, Len(b)))

(* _encode_image: len() and b64encode() of a bytes object succeed; any     *)
(* other value makes b64encode raise, which _encode_image re-raises.       *)
EncodeRaises(file_data) == file_data.kind # "bytes"

_encode_image(file_data) == B64(file_data.data)

DataUrl(encoded) == [prefix |-> "data:image/jpeg;base64,", b64 |-> encoded]

-----------------------------------------------------------------------------
(* Messages *)

TextMsg(tag, arg) == [type |-> "text", tag |-> tag, arg |-> arg]

ImageMsg(url) == [type |-> "image", tag |-> "image", arg |-> <<url>>]

JsonMsg(info, usage) == [type |-> "json", tag |-> "json", arg |-> <<info, usage>>]

-----------------------------------------------------------------------------
(* Image references.  A reference is either a str (a path string, which     *)
(* has none of the attributes url, blob, read, path) or an object whose    *)
(* attributes behave as follows.                                           *)
(*   url  : "absent" (no attribute, or falsy), "ok", "empty" (the download  *)
(*          succeeds with zero bytes), "throws" (requests.get or           *)
(*          raise_for_status raises)                                       *)
(*   blob : "absent", "ok", "empty", "none" (the attribute is None),       *)
(*          "raises" (the property raises something other than             *)
(*          AttributeError, so hasattr itself raises)                      *)
(*   read : "absent", "ok", "empty", "str" (read() returns text),          *)
(*          "throws"                                                       *)
(*   seek : "absent", "ok", "throws"                                       *)
(*   path : "absent", "ok", "ioerror" (open raises IOError)                *)
(*   open : for a str: "ok", "ioerror", "valueerror" (open raises          *)
(*          ValueError, which the handler of that step does not catch)     *)

ObjRefs ==
    { [isstr |-> FALSE, url |-> u, blob |-> b, read |-> r, seek |-> s,
       path |-> p, open |-> "absent"] :
        u \in {"absent", "ok", "empty", "throws"},
        b \in {"absent", "ok", "empty", "none", "raises"},
        r \in {"absent", "ok", "empty", "str", "throws"},
        s \in {"absent", "ok", "throws"},
        p \in {"absent", "ok", "ioerror"} }

StrRefs ==
    { [isstr |-> TRUE, url |-> "absent", blob |-> "absent", read |-> "absent",
       seek |-> "absent", path |-> "absent", open |-> o] :
        o \in {"ok", "ioerror", "valueerror"} }

(* seek is only ever called after a read() that returned. *)
ImageRefs ==
    { r \in ObjRefs : r.seek # "absent" => r.read = "ok" } \cup StrRefs

NoRef ==
    [isstr |-> FALSE, url |-> "absent", blob |-> "absent", read |-> "absent",
     seek |-> "absent", path |-> "absent", open |-> "absent"]

Yielded(kind, bytes) ==
    IF kind = "ok" THEN Bytes(bytes)
    ELSE IF kind = "empty" THEN Bytes(<<>>)
    ELSE IF kind = "str" THEN Text(bytes)
    ELSE NoneContent

-----------------------------------------------------------------------------
(* One iteration of the image loop, as a frame                             *)
(*   file_content : the local variable                                     *)
(*   out          : messages yielded so far in this iteration              *)
(*   ctl          : "run", "encoded" (line 124 is reached: the data URL is *)
(*                  appended), "return" (the generator returned), "raise"  *)
(*                  (an exception is propagating to the handler of line    *)
(*                  129)                                                   *)

Frame0 == [file_content |-> NoneContent, out |-> <<>>, ctl |-> "run"]

Emit(f, m) == [f EXCEPT !.out = Append(@, m)]

(* StepUrl with the `return` of line 73 missing: a failed download falls   *)
(* through to the other methods.                                           *)
StepUrlFallsThrough(f, img) ==
    IF f.ctl # "run" \/ img.url = "absent" THEN f
    ELSE LET f1 == Emit(f, TextMsg("url_fetching", <<>>)) IN
         IF img.url = "throws"
         THEN Emit(f1, TextMsg("url_failed", <<>>))
         ELSE LET c == Yielded(img.url, UrlBytes) IN
              [Emit(f1, TextMsg("url_ok", <<Len(c.data)>>))
                  EXCEPT !.file_content = c]

(* lines 62-73 *)
StepUrl(f, img) ==
    IF f.ctl # "run" \/ img.url = "absent" THEN f
    ELSE LET f1 == Emit(f, TextMsg("url_fetching", <<>>)) IN
         IF img.url = "throws"
         THEN [Emit(f1, TextMsg("url_failed", <<>>)) EXCEPT !.ctl = "return"]
         ELSE LET c == Yielded(img.url, UrlBytes) IN
              [Emit(f1, TextMsg("url_ok", <<Len(c.data)>>))
                  EXCEPT !.file_content = c]

(* lines 76-81 *)
StepBlob(f, img) ==
    IF f.ctl # "run" \/ f.file_content # NoneContent \/ img.blob = "absent" THEN f
    ELSE IF img.blob = "raises" THEN [f EXCEPT !.ctl = "raise"]
    ELSE IF img.blob = "none" THEN Emit(f, TextMsg("blob_failed", <<>>))
    ELSE LET c == Yielded(img.blob, BlobBytes) IN
         [Emit(f, TextMsg("blob_ok", <<Len(c.data)>>)) EXCEPT !.file_content = c]

(* lines 84-92 *)
StepRead(f, img) ==
    IF f.ctl # "run" \/ f.file_content # NoneContent \/ img.read = "absent" THEN f
    ELSE IF img.read = "throws" THEN Emit(f, TextMsg("read_failed", <<>>))
    ELSE LET c  == Yielded(img.read, ReadBytes)
             f1 == [Emit(f, TextMsg("read_ok", <<>>)) EXCEPT !.file_content = c]
         IN  IF img.seek = "throws"
             THEN Emit(f1, TextMsg("read_failed", <<>>))
             ELSE f1

(* lines 95-101 *)
StepPathStr(f, img) ==
    IF f.ctl # "run" \/ f.file_content # NoneContent \/ ~img.isstr THEN f
    ELSE IF img.open = "valueerror" THEN [f EXCEPT !.ctl = "raise"]
    ELSE IF img.open = "ioerror" THEN Emit(f, TextMsg("pathstr_failed", <<>>))
    ELSE LET c == Yielded(img.open, StrPathBytes) IN
         [Emit(f, TextMsg("pathstr_ok", <<Len(c.data)>>)) EXCEPT !.file_content = c]

(* lines 104-110 *)
StepPath(f, img) ==
    IF f.ctl # "run" \/ f.file_content # NoneContent \/ img.path = "absent" THEN f
    ELSE IF img.path = "ioerror" THEN Emit(f, TextMsg("path_failed", <<>>))
    ELSE LET c == Yielded(img.path, PathBytes) IN
         [Emit(f, TextMsg("path_ok", <<Len(c.data)>>)) EXCEPT !.file_content = c]

(* lines 113-115 *)
StepCheck(f) ==
    IF f.ctl = "run" /\ f.file_content = NoneContent
    THEN [Emit(f, TextMsg("unavailable", <<>>)) EXCEPT !.ctl = "return"]
    ELSE f

(* StepEncode with the `return` of line 127 missing: the loop goes on to   *)
(* the next image without having appended this one.                        *)
StepEncodeGoesOn(f) ==
    IF f.ctl # "run" THEN f
    ELSE IF EncodeRaises(f.file_content)
    THEN Emit(f, TextMsg("encode_failed", <<>>))
    ELSE [Emit(f, TextMsg("encoded", <<Len(f.file_content.data),
                                       Len(_encode_image(f.file_content))>>))
             EXCEPT !.ctl = "encoded"]

(* lines 118-127; the frame keeps file_content, the caller appends the URL *)
StepEncode(f) ==
    IF f.ctl # "run" THEN f
    ELSE IF EncodeRaises(f.file_content)
    THEN [Emit(f, TextMsg("encode_failed", <<>>)) EXCEPT !.ctl = "return"]
    ELSE [Emit(f, TextMsg("encoded", <<Len(f.file_content.data),
                                       Len(_encode_image(f.file_content))>>))
             EXCEPT !.ctl = "encoded"]

(* lines 129-132 *)
OuterHandler(f) ==
    IF f.ctl = "raise"
    THEN [Emit(f, TextMsg("process_failed", <<>>)) EXCEPT !.ctl = "return"]
    ELSE f

(* lines 57-132: the body of the loop for one image reference *)
LoopBody(img) ==
    OuterHandler(StepEncode(StepCheck(
        StepPath(StepPathStr(StepRead(StepBlob(StepUrl(Frame0, img), img), img), img), img))))

-----------------------------------------------------------------------------
Init ==
    /\ pc = "start"
    /\ n = 0
    /\ i = 0
    /\ image_file = NoRef
    /\ last_out = <<>>
    /\ images_data = <<>>
    /\ msgs = <<>>
    /\ api_calls = 0
    /\ request = [made |-> FALSE, image_is_none |-> FALSE, image |-> <<>>]
    /\ images_info = <<>>
    /\ stream = <<>>
    /\ outs = <<>>

(* lines 46-53: read the parameters *)
Start ==
    /\ pc = "start"
    /\ \E k \in 0..MaxImages : n' = k
    /\ pc' = "images"
    /\ UNCHANGED <<i, image_file, last_out, images_data, msgs, api_calls,
                   request, images_info, stream, outs>>

(* lines 56-132: one iteration of the loop over image_files *)
ProcessImage ==
    /\ pc = "images"
    /\ i < n
    /\ \E img \in ImageRefs :
         LET f == LoopBody(img) IN
         /\ image_file' = img
         /\ last_out' = f.out
         /\ msgs' = msgs \o f.out
         /\ images_data' =
               IF f.ctl = "encoded"
               THEN Append(images_data, DataUrl(_encode_image(f.file_content)))
               ELSE images_data
         /\ pc' = IF f.ctl = "return" THEN "returned" ELSE "images"
    /\ i' = i + 1
    /\ UNCHANGED <<n, api_calls, request, images_info, stream, outs>>

-----------------------------------------------------------------------------
(* Stream events.  error is the code of event.error, "None" when           *)
(* event.error is None; url and usage are "None" when absent.              *)

PARTIAL_FAILED == "image_generation.partial_failed"

PARTIAL_SUCCEEDED == "image_generation.partial_succeeded"

COMPLETED == "image_generation.completed"

PARTIAL_IMAGE == "image_generation.partial_image"

Event(t, err, url, usage) == [type |-> t, error |-> err, url |-> url, usage |-> usage]

NullEvent == Event("null", "None", "None", "None")

Events ==
    {NullEvent, Event("image_generation.other", "None", "None", "None")}
    \cup { Event(PARTIAL_FAILED, err, "None", "None") :
             err \in {"None", "InternalServiceError", "OtherError"} }
    \cup { Event(PARTIAL_SUCCEEDED, "None", u, "None") : u \in {"U0", "U1", "None"} }
    \cup { Event(PARTIAL_SUCCEEDED, "OtherError", "U0", "None") }
    \cup { Event(COMPLETED, "None", "None", x) : x \in {"X0", "X1"} }
    \cup { Event(COMPLETED, "OtherError", "None", "None") }
    \cup { Event(PARTIAL_IMAGE, "None", "U0", "None"),
           Event(PARTIAL_IMAGE, "OtherError", "U1", "None") }

(* line 163: event.error.code.equal(s).  code is a str, and str has no      *)
(* attribute `equal`: the attribute lookup raises AttributeError.          *)
StrEqual(code, s) == "AttributeError"

(* The handling of one event: the messages yielded, the list images_info   *)
(* afterwards, and how control leaves the loop body: "continue", "return"  *)
(* or "raise" (an exception propagating to the handler of line 183).       *)
Handled(out, info, ctl) == [out |-> out, info |-> info, ctl |-> ctl]

(* lines 161-165 *)
OnPartialFailed(e, info) ==
    LET warn == TextMsg("partial_failed", <<e>>) IN
    IF e.error = "None" THEN Handled(<<warn>>, info, "continue")
    ELSE LET r == StrEqual(e.error, "InternalServiceError") IN
         IF r = "AttributeError" THEN Handled(<<warn>>, info, "raise")
         ELSE IF r = "True"
         THEN Handled(<<warn, TextMsg("internal_service_error", <<e>>)>>, info, "return")
         ELSE Handled(<<warn>>, info, "continue")

(* OnPartialSucceeded without line 168: the event is not recorded. *)
OnPartialSucceededUnrecorded(e, info) ==
    IF e.error = "None" /\ e.url # "None"
    THEN Handled(<<TextMsg("image_done", <<e>>), ImageMsg(e.url)>>, info, "continue")
    ELSE Handled(<<>>, info, "continue")

(* lines 166-170 *)
OnPartialSucceeded(e, info) ==
    IF e.error = "None" /\ e.url # "None"
    THEN Handled(<<TextMsg("image_done", <<e>>), ImageMsg(e.url)>>,
                 Append(info, e), "continue")
    ELSE Handled(<<>>, info, "continue")

(* lines 171-176 *)
OnCompleted(e, info) ==
    IF e.error = "None"
    THEN Handled(<<TextMsg("completed", <<>>), JsonMsg(info, e.usage)>>, info, "continue")
    ELSE Handled(<<>>, info, "continue")

(* OnPartialImage with the test of line 167 added. *)
OnPartialImageChecked(e, info) ==
    IF e.error = "None" /\ e.url # "None"
    THEN Handled(<<TextMsg("image_done", <<e>>), ImageMsg(e.url)>>,
                 Append(info, e), "continue")
    ELSE Handled(<<>>, info, "continue")

(* lines 177-181 *)
OnPartialImage(e, info) ==
    Handled(<<TextMsg("image_done", <<e>>), ImageMsg(e.url)>>, Append(info, e), "continue")

(* ExceptHandler without the message of line 185. *)
ExceptHandlerSilent(h) ==
    IF h.ctl = "raise" THEN Handled(h.out, h.info, "caught") ELSE h

(* lines 183-185 *)
ExceptHandler(h) ==
    IF h.ctl = "raise"
    THEN Handled(Append(h.out, TextMsg("generate_error", <<>>)), h.info, "caught")
    ELSE h

(* lines 158-185: the loop body for one event *)
OnEvent(e, info) ==
    ExceptHandler(
        IF e = NullEvent THEN Handled(<<>>, info, "continue")
        ELSE IF e.type = PARTIAL_FAILED THEN OnPartialFailed(e, info)
        ELSE IF e.type = PARTIAL_SUCCEEDED THEN OnPartialSucceeded(e, info)
        ELSE IF e.type = COMPLETED THEN OnCompleted(e, info)
        ELSE IF e.type = PARTIAL_IMAGE THEN OnPartialImage(e, info)
        ELSE Handled(<<>>, info, "continue"))

(* lines 134-157: the call of the remote API succeeds and returns a stream *)
CallApi ==
    /\ pc = "images"
    /\ i = n
    /\ api_calls' = api_calls + 1
    /\ request' = [made |-> TRUE, image_is_none |-> (n = 0), image |-> images_data]
    /\ msgs' = msgs \o <<TextMsg("preparing", <<>>), TextMsg("prompt", <<>>),
                         TextMsg("waiting", <<>>)>>
    /\ images_info' = <<>>
    /\ image_file' = NoRef
    /\ last_out' = <<>>
    /\ pc' = "stream"
    /\ UNCHANGED <<n, i, images_data, stream, outs>>

(* lines 139-153, 183-185: client.images.generate raises *)
CallApiRaises ==
    /\ pc = "images"
    /\ i = n
    /\ api_calls' = api_calls + 1
    /\ request' = [made |-> TRUE, image_is_none |-> (n = 0), image |-> images_data]
    /\ msgs' = msgs \o <<TextMsg("preparing", <<>>), TextMsg("prompt", <<>>),
                         TextMsg("generate_error", <<>>)>>
    /\ image_file' = NoRef
    /\ last_out' = <<>>
    /\ pc' = "caught"
    /\ UNCHANGED <<n, i, images_data, images_info, stream, outs>>

(* line 158 and the loop body: the stream delivers e, the body handles it *)
Consume(e) ==
    /\ pc = "stream"
    /\ Len(stream) + n + n < MaxInputs
    /\ LET h == OnEvent(e, images_info) IN
       /\ stream' = Append(stream, e)
       /\ outs' = Append(outs, h.out)
       /\ msgs' = msgs \o h.out
       /\ images_info' = h.info
       /\ pc' = IF h.ctl = "continue" THEN "stream"
                ELSE IF h.ctl = "return" THEN "returned" ELSE "caught"
    /\ UNCHANGED <<n, i, image_file, last_out, images_data, api_calls, request>>

SkipEvent == \E e \in Events :
    /\ e.type \notin {PARTIAL_FAILED, PARTIAL_SUCCEEDED, COMPLETED, PARTIAL_IMAGE}
    /\ Consume(e)

PartialFailed == \E e \in Events : e.type = PARTIAL_FAILED /\ Consume(e)

PartialSucceeded == \E e \in Events : e.type = PARTIAL_SUCCEEDED /\ Consume(e)

Completed == \E e \in Events : e.type = COMPLETED /\ Consume(e)

PartialImage == \E e \in Events : e.type = PARTIAL_IMAGE /\ Consume(e)

(* line 158: the stream is exhausted, the generator finishes *)
StreamEnd ==
    /\ pc = "stream"
    /\ pc' = "exhausted"
    /\ UNCHANGED <<n, i, image_file, last_out, images_data, msgs, api_calls,
                   request, images_info, stream, outs>>

(* lines 158, 183-185: iterating the stream raises *)
StreamRaises ==
    /\ pc = "stream"
    /\ msgs' = Append(msgs, TextMsg("generate_error", <<>>))
    /\ pc' = "caught"
    /\ UNCHANGED <<n, i, image_file, last_out, images_data, api_calls,
                   request, images_info, stream, outs>>

Next ==
    \/ Start
    \/ ProcessImage
    \/ CallApi
    \/ CallApiRaises
    \/ SkipEvent
    \/ PartialFailed
    \/ PartialSucceeded
    \/ Completed
    \/ PartialImage
    \/ StreamEnd
    \/ StreamRaises

Spec == Init /\ [][Next]_vars

-----------------------------------------------------------------------------
(* Vocabulary of the properties *)

Last(s) == s[Len(s)]

EndsWith(s, t) == Len(t) <= Len(s) /\ SubSeq(s, Len(s) - Len(t) + 1, Len(s)) = t

Tags(s) == { s[k].tag : k \in DOMAIN s }

IsText(m) == m.type = "text"

IsImage(m) == m.type = "image"

IsJson(m) == m.type = "json"

IsNotice(m) == m.tag = "image_done"

Ended == {"returned", "caught", "exhausted"}

(* an iteration of the image loop has run and the stream is not yet open *)
InImageLoop == image_file # NoRef

(* the failure messages of the image loop *)
CaughtStepTags == {"blob_failed", "read_failed", "pathstr_failed", "path_failed"}

AbortStepTags == {"url_failed", "process_failed"}

ImageFailureTags ==
    CaughtStepTags \cup AbortStepTags \cup {"unavailable", "encode_failed"}

Warning(e) == TextMsg("partial_failed", <<e>>)

GoodSucceeded(e) == e.type = PARTIAL_SUCCEEDED /\ e.error = "None" /\ e.url # "None"

GoodCompleted(e) == e.type = COMPLETED /\ e.error = "None"

InternalFailure(e) == e.type = PARTIAL_FAILED /\ e.error = "InternalServiceError"

OtherFailure(e) ==
    e.type = PARTIAL_FAILED /\ e.error \notin {"None", "InternalServiceError"}

-----------------------------------------------------------------------------
(* C1: the remote API is called only when every input image was resolved   *)
(* and encoded (the submitted list has one data URL per input image); an   *)
(* image that fails to resolve or encode ends the invocation right after a *)
(* text message, with zero remote calls.                                   *)
C1_NoPartialSubmission ==
    /\ api_calls <= 1
    /\ api_calls > 0 => request.made
    /\ (request.made /\ n > 0) =>
          i = n /\ Len(request.image) = n /\ ~request.image_is_none
    /\ Len(images_data) < i =>
          /\ pc = "returned"
          /\ api_calls = 0 /\ ~request.made
          /\ last_out # <<>> /\ EndsWith(msgs, last_out)
          /\ IsText(Last(msgs)) /\ Last(msgs).tag \in ImageFailureTags

(* the second of two images failed after the first was encoded *)
C1_Witness ==
    pc = "returned" /\ n = 2 /\ i = 2 /\ Len(images_data) = 1 /\ api_calls = 0

-----------------------------------------------------------------------------
(* C2, as claimed: a partial_failed event with code InternalServiceError   *)
(* yields the warning and nothing else, and ends the invocation.           *)
C2_Original ==
    \A k \in DOMAIN stream :
        InternalFailure(stream[k]) =>
            /\ outs[k] = <<Warning(stream[k])>>
            /\ k = Len(stream) /\ pc \in Ended /\ EndsWith(msgs, outs[k])

(* C2, amended: such an event yields the warning and exactly one further   *)
(* text message reporting the failure; the invocation ends there: it is    *)
(* the last event consumed, the log ends with these two messages and no    *)
(* JSON message is among them.                                             *)
C2_InternalFailureEnds ==
    \A k \in DOMAIN stream :
        InternalFailure(stream[k]) =>
            /\ Len(outs[k]) = 2
            /\ outs[k][1] = Warning(stream[k])
            /\ IsText(outs[k][2]) /\ outs[k][2] # Warning(stream[k])
            /\ k = Len(stream)
            /\ pc \in {"returned", "caught"}
            /\ EndsWith(msgs, outs[k])

(* the failure arrives second, with room for more events after it *)
C2_Witness ==
    /\ Len(stream) = 2 /\ InternalFailure(stream[2]) /\ GoodSucceeded(stream[1])
    /\ Len(stream) + n < MaxInputs
    /\ pc \in Ended

-----------------------------------------------------------------------------
(* C3: a partial_failed event with another error code yields the warning   *)
(* only and does not end the invocation (if the invocation ended with it   *)
(* as the last event, the stream was exhausted or raised afterwards), and  *)
(* a later completed event without error yields the JSON message.          *)
C3_Original ==
    \A k \in DOMAIN stream :
        OtherFailure(stream[k]) =>
            /\ outs[k] = <<Warning(stream[k])>>
            /\ (k = Len(stream) /\ pc \in Ended) =>
                   (pc = "exhausted" \/ ~EndsWith(msgs, outs[k]))
            /\ \A m \in DOMAIN stream :
                   (m > k /\ GoodCompleted(stream[m])) =>
                       \E j \in DOMAIN outs[m] : IsJson(outs[m][j])

-----------------------------------------------------------------------------
(* C4: for a stream of m partial_succeeded events (no error, a URL) and    *)
(* then one completed event without error, the image messages are the      *)
(* URLs in stream order, each event yields one notice and one image        *)
(* message, and there is exactly one JSON message, the last message of     *)
(* all, holding the m events in order and the usage of the completed       *)
(* event.                                                                  *)
C4_Shape ==
    /\ pc \in {"stream", "exhausted"}
    /\ Len(stream) >= 1
    /\ GoodCompleted(Last(stream))
    /\ \A k \in 1..(Len(stream) - 1) : GoodSucceeded(stream[k])

C4_OrderedImagesThenJson ==
    C4_Shape =>
        LET m  == Len(stream) - 1
            js == SelectSeq(msgs, IsJson)
        IN  /\ SelectSeq(msgs, IsImage) = [k \in 1..m |-> ImageMsg(stream[k].url)]
            /\ SelectSeq(msgs, IsNotice) =
                   [k \in 1..m |-> TextMsg("image_done", <<stream[k]>>)]
            /\ \A k \in 1..m :
                   /\ Len(outs[k]) = 2
                   /\ \E j \in 1..2 : IsNotice(outs[k][j])
                   /\ \E j \in 1..2 : outs[k][j] = ImageMsg(stream[k].url)
            /\ Len(js) = 1
            /\ Last(msgs) = js[1]
            /\ js[1].arg = <<SubSeq(stream, 1, m), Last(stream).usage>>

C4_Witness ==
    /\ C4_Shape /\ pc = "exhausted"
    /\ Len(stream) = 3 /\ stream[1].url = "U0" /\ stream[2].url = "U1"
    /\ stream[3].usage = "X1"

-----------------------------------------------------------------------------
(* C5: at most one JSON message per invocation, and nothing is emitted     *)
(* after it.                                                               *)
C5_Original ==
    LET js == SelectSeq(msgs, IsJson)
    IN  /\ Len(js) <= 1
        /\ Len(js) = 1 => IsJson(Last(msgs))

-----------------------------------------------------------------------------
(* C6: a reference that exactly one of the five methods can resolve, the   *)
(* others being absent or failing, is resolved with the bytes of that      *)
(* method and its progress message; a reference none can resolve fails,    *)
(* with no remote call.                                                    *)
CanYield(img) ==
    (IF img.url = "ok" THEN {"url"} ELSE {})
    \cup (IF img.blob = "ok" THEN {"blob"} ELSE {})
    \cup (IF img.read = "ok" THEN {"read"} ELSE {})
    \cup (IF img.open = "ok" THEN {"pathstr"} ELSE {})
    \cup (IF img.path = "ok" THEN {"path"} ELSE {})

(* every method is absent, yields the bytes, or fails inside its own step *)
AbsentOrFails(img) ==
    /\ img.url \in {"absent", "ok", "throws"}
    /\ img.blob \in {"absent", "ok", "none"}
    /\ img.read \in {"absent", "ok", "throws"}
    /\ img.open \in {"absent", "ok", "ioerror"}
    /\ img.path \in {"absent", "ok", "ioerror"}

SourceBytes(method) ==
    IF method = "url" THEN UrlBytes
    ELSE IF method = "blob" THEN BlobBytes
    ELSE IF method = "read" THEN ReadBytes
    ELSE IF method = "pathstr" THEN StrPathBytes
    ELSE PathBytes

C6_Original ==
    (InImageLoop /\ AbsentOrFails(image_file)) =>
        /\ \A method \in CanYield(image_file) :
               CanYield(image_file) = {method} =>
                   /\ Len(images_data) = i
                   /\ Last(images_data) = DataUrl(B64(SourceBytes(method)))
                   /\ (method \o "_ok") \in Tags(last_out)
        /\ CanYield(image_file) = {} =>
               Len(images_data) < i /\ pc = "returned" /\ api_calls = 0

-----------------------------------------------------------------------------
-----------------------------------------------------------------------------
(* C8: every stream event with an error, and every failure to resolve or   *)
(* encode an image, yields a text message; an invocation that ends without *)
(* a JSON message has emitted a text message reporting a failure.          *)
C8_Original ==
    /\ \A k \in DOMAIN stream :
           stream[k].error # "None" => \E j \in DOMAIN outs[k] : IsText(outs[k][j])
    /\ Len(images_data) < i => Tags(last_out) \cap ImageFailureTags # {}
    /\ (pc \in Ended /\ SelectSeq(msgs, IsJson) = <<>>) =>
           Tags(msgs) \cap (ImageFailureTags
                            \cup {"partial_failed", "generate_error",
                                  "internal_service_error"}) # {}

-----------------------------------------------------------------------------
(* C9: no data URL of zero bytes is ever built or submitted, and a method  *)
(* that yields zero bytes does not end the search: a later method that     *)
(* yields bytes is used.                                                   *)
C9_Original ==
    /\ \A k \in DOMAIN images_data : images_data[k].b64 # <<>>
    /\ \A k \in DOMAIN request.image : request.image[k].b64 # <<>>
    /\ (InImageLoop /\ image_file.url = "absent" /\ image_file.blob = "empty"
           /\ image_file.read = "absent" /\ image_file.path = "ok") =>
          Len(images_data) = i /\ Last(images_data) = DataUrl(B64(PathBytes))

-----------------------------------------------------------------------------
(* C10: images_info is the subsequence, in arrival order, of the events    *)
(* delivered so far that are partial_succeeded with no error and a URL or  *)
(* partial_image; the image messages emitted are, in order, the URLs of    *)
(* the recorded events.                                                    *)
Recorded(e) == GoodSucceeded(e) \/ e.type = PARTIAL_IMAGE

C10_InfoInStep ==
    /\ images_info = SelectSeq(stream, Recorded)
    /\ SelectSeq(msgs, IsImage) =
           [k \in DOMAIN images_info |-> ImageMsg(images_info[k].url)]

C10_Witness ==
    /\ Len(images_info) = 2 /\ Len(stream) = 3
    /\ images_info[1].type = PARTIAL_IMAGE /\ images_info[1].error # "None"
    /\ GoodSucceeded(images_info[2])
    /\ images_info[1].url # images_info[2].url

====
